---- MODULE Spec2Model ----
(***************************************************************************)
(* rgr.py: a directed property graph kept in a Redis key space.            *)
(*                                                                         *)
(* The store is one record whose fields are the key families of rgr.py:    *)
(*   next_nid, next_eid   <name>:next_nid / <name>:next_eid   (scalars)     *)
(*   nodes, edges         <name>:nodes / <name>:edges          (sets)       *)
(*   props[<<k,i>>]       <name>:<k>:<i>:p                      (hash)       *)
(*   ein[e], eon[e]       <name>:e:<e>:in / :on                 (scalars)    *)
(*   oe[n], ie[n]         <name>:n:<n>:oe / :ie                 (sets)       *)
(*   cn[n], pn[n]         <name>:n:<n>:cn / :pn                 (sorted sets)*)
(*   fwd[<<k,f>>]         <name>:i:<k>:<f>                      (set)        *)
(*   comp[<<k,f,v>>]      <name>:i:<k>:<f>:<v>                  (set)        *)
(* Ids are the decimal strings Redis hands back; a natural number stands   *)
(* for its decimal string.  Field names are attribute names (no ':'), so   *)
(* the index keys of different (field, value) pairs are different keys.    *)
(***************************************************************************)
EXTENDS Integers, FiniteSets, Sequences, TLC

\* ---------------------------------------------------------------- bounds
MaxNodes == 2
MaxEdges == 2
MaxPropOps == 2
MaxGhostDel == 1

Fields == {"f"}
Values == {"", "a"}

\* hget / get on a missing field or key answer None
NIL == "nil"
\* get() of a missing <name>:e:<e>:in answers None, which format() renders
\* as the text 'None' inside the key of the node it is taken for
NONE == -1

Kinds == {"n", "e"}
NodeArgs == 0..MaxNodes
EdgeArgs == 0..MaxEdges
NodeKeys == NodeArgs \cup {NONE}
\* the ids add_node / add_edge can hand out; NodeArgs and EdgeArgs hold one more,
\* an id that is never allocated
NodeIds == 0..(MaxNodes - 1)
EdgeIds == 0..(MaxEdges - 1)
Ents == ({"n"} \X NodeIds) \cup ({"e"} \X EdgeIds)
KwArgs == [Fields -> Values \cup {NIL}]
Procs == {1, 2}
NoKw == [f \in Fields |-> NIL]

VARIABLES store, op, issued, nprop, proc

vars == <<store, op, issued, nprop, proc>>

\* ------------------------------------------------------- redis commands
EmptyZ == [x \in {} |-> 0]

Zincrby(z, member, amount) ==
    [x \in DOMAIN z \cup {member} |->
        IF x = member
        THEN (IF member \in DOMAIN z THEN z[member] ELSE 0) + amount
        ELSE z[x]]

Zrem(z, member) == [x \in DOMAIN z \ {member} |-> z[x]]

\* Python truthiness of what hget answers: None and '' are both false
Truthy(val) == val # NIL /\ val # ""

\* ------------------------------------------------------------- indexes
Index(s, ent, key, value) ==
    [s EXCEPT !.fwd[<<ent[1], key>>] = @ \cup {ent[2]},
              !.comp[<<ent[1], key, value>>] = @ \cup {ent[2]}]

Deindex(s, ent, key, value) ==
    [s EXCEPT !.fwd[<<ent[1], key>>] = @ \ {ent[2]},
              !.comp[<<ent[1], key, value>>] = @ \ {ent[2]}]

\* ---------------------------------------------------------- Properties
Hset(s, ent, name, value) == [s EXCEPT !.props[ent][name] = value]

\* if redis.hget(<name>:p, name): old_value = redis.hget(...); _deindex(...)
DeindexOld(s, ent, name) ==
    IF Truthy(s.props[ent][name])
    THEN Deindex(s, ent, name, s.props[ent][name])
    ELSE s

SetAttr(s, ent, name, value) ==
    Index(Hset(DeindexOld(s, ent, name), ent, name, value), ent, name, value)

GetAttr(s, ent, name) ==
    IF ~Truthy(s.props[ent][name])
    THEN [store |-> s, raised |-> TRUE, ret |-> NIL]
    ELSE [store |-> s, raised |-> FALSE, ret |-> s.props[ent][name]]

\* __delattr__ taking an empty value for a missing field, as __getattr__ does
DelAttrFalsy(s, ent, name) ==
    IF ~Truthy(s.props[ent][name])
    THEN [store |-> s, raised |-> TRUE, ret |-> NONE]
    ELSE [store |-> Deindex(Hset(s, ent, name, NIL), ent, name, s.props[ent][name]),
          raised |-> FALSE, ret |-> NONE]

\* value = hget(...); exists = hdel(...); hdel answers how many fields it removed
DelAttr(s, ent, name) ==
    LET exists == IF s.props[ent][name] = NIL THEN 0 ELSE 1
    IN  IF exists = 0
        THEN [store |-> s, raised |-> TRUE, ret |-> NONE]
        ELSE [store |-> Deindex(Hset(s, ent, name, NIL), ent, name, s.props[ent][name]),
              raised |-> FALSE, ret |-> NONE]

\* the fields a property map holds: the keys of hgetall
PropKeys(s, ent) == {f \in Fields : s.props[ent][f] # NIL}

RECURSIVE DeindexAll(_, _, _, _)
DeindexAll(s, ent, props, keys) ==
    IF keys = {} THEN s
    ELSE LET p == CHOOSE x \in keys : TRUE
         IN  DeindexAll(Deindex(s, ent, p, props[p]), ent, props, keys \ {p})

\* props = obj.properties(); for p in props.keys(): _deindex(name, p, props[p])
DeindexProps(s, ent) == DeindexAll(s, ent, s.props[ent], PropKeys(s, ent))

\* for k in kwargs: prop.__setattr__(k, kwargs[k]); _index(name, k, kwargs[k])
RECURSIVE InitProps(_, _, _, _)
InitProps(s, ent, kwargs, keys) ==
    IF keys = {} THEN s
    ELSE LET k == CHOOSE x \in keys : TRUE
         IN  InitProps(Index(SetAttr(s, ent, k, kwargs[k]), ent, k, kwargs[k]),
                       ent, kwargs, keys \ {k})

KwKeys(kwargs) == {f \in Fields : kwargs[f] # NIL}

\* ---------------------------------------------------------------- Graph
\* add_node taking the new id from the size of the node set, not the counter
AddNodeBySize(s, kwargs) ==
    LET new_nid == Cardinality(s.nodes)
        s1 == [s EXCEPT !.nodes = @ \cup {new_nid}]
        s2 == InitProps(s1, <<"n", new_nid>>, kwargs, KwKeys(kwargs))
        s3 == [s2 EXCEPT !.next_nid = @ + 1]
    IN  [store |-> s3, raised |-> FALSE, ret |-> new_nid]

AddNode(s, kwargs) ==
    LET new_nid == s.next_nid
        s1 == [s EXCEPT !.nodes = @ \cup {new_nid}]
        s2 == InitProps(s1, <<"n", new_nid>>, kwargs, KwKeys(kwargs))
        s3 == [s2 EXCEPT !.next_nid = @ + 1]
    IN  [store |-> s3, raised |-> FALSE, ret |-> new_nid]

\* add_edge from redis.set(<name>:e:<id>:in, parent) to the second zincrby
Connect(s, parent, child, new_eid) ==
    LET s1 == [s EXCEPT !.ein[new_eid] = parent,
                        !.eon[new_eid] = child,
                        !.oe[parent] = @ \cup {new_eid},
                        !.ie[child] = @ \cup {new_eid}]
        s2 == [s1 EXCEPT !.cn[parent] = Zincrby(@, child, 1)]
    IN  [s2 EXCEPT !.pn[child] = Zincrby(@, parent, 1)]

\* add_edge from the two sismember checks on; s already holds the new id in
\* the edge set and the properties
AddEdgeChecked(s, parent, child, new_eid) ==
    IF parent \notin s.nodes \/ child \notin s.nodes
    THEN [store |-> s, raised |-> TRUE, ret |-> NONE]
    ELSE [store |-> [Connect(s, parent, child, new_eid) EXCEPT !.next_eid = @ + 1],
          raised |-> FALSE, ret |-> new_eid]

AddEdge(s, parent, child, kwargs) ==
    LET new_eid == s.next_eid
        s1 == [s EXCEPT !.edges = @ \cup {new_eid}]
        s2 == InitProps(s1, <<"e", new_eid>>, kwargs, KwKeys(kwargs))
    IN  AddEdgeChecked(s2, parent, child, new_eid)

\* if zincrby(key, member, -1) == 0: zrem(key, member)
DecrOrRemove(z, member) ==
    IF Zincrby(z, member, -1)[member] = 0
    THEN Zrem(z, member)
    ELSE Zincrby(z, member, -1)

\* del_edge forgetting the parents weight
DisconnectNoPn(s, parent, child, edge) ==
    LET s1 == [s EXCEPT !.cn[parent] = DecrOrRemove(@, child)]
        s3 == [s1 EXCEPT !.oe[parent] = @ \ {edge}]
    IN  [s3 EXCEPT !.ie[child] = @ \ {edge}]

\* del_edge leaving an entry whose weight reached 0
DisconnectKeepZero(s, parent, child, edge) ==
    LET s1 == [s EXCEPT !.cn[parent] = Zincrby(@, child, -1)]
        s2 == [s1 EXCEPT !.pn[child] = Zincrby(@, parent, -1)]
        s3 == [s2 EXCEPT !.oe[parent] = @ \ {edge}]
    IN  [s3 EXCEPT !.ie[child] = @ \ {edge}]

\* del_edge from the two zincrby to the two srem
Disconnect(s, parent, child, edge) ==
    LET s1 == [s EXCEPT !.cn[parent] = DecrOrRemove(@, child)]
        s2 == [s1 EXCEPT !.pn[child] = DecrOrRemove(@, parent)]
        s3 == [s2 EXCEPT !.oe[parent] = @ \ {edge}]
    IN  [s3 EXCEPT !.ie[child] = @ \ {edge}]

DelEdge(s, edge) ==
    LET parent == s.ein[edge]
        child == s.eon[edge]
        ent == <<"e", edge>>
        s1 == DeindexProps(Disconnect(s, parent, child, edge), ent)
        s2 == [s1 EXCEPT !.ein[edge] = NONE,
                         !.eon[edge] = NONE,
                         !.props[ent] = NoKw]
        s3 == [s2 EXCEPT !.edges = @ \ {edge}]
    IN  IF edge \notin s.edges
        THEN [store |-> s, raised |-> TRUE, ret |-> NONE]
        ELSE [store |-> s3, raised |-> FALSE, ret |-> NONE]

\* for e in in_edges | out_edges: self.del_edge(e); an exception leaves the loop
RECURSIVE DelEdges(_, _), DelEdgesFrom(_, _)
DelEdgesFrom(r, es) == IF r.raised THEN r ELSE DelEdges(r.store, es)

DelEdges(s, es) ==
    IF es = {} THEN [store |-> s, raised |-> FALSE, ret |-> NONE]
    ELSE LET e == CHOOSE x \in es : TRUE
         IN  DelEdgesFrom(DelEdge(s, e), es \ {e})

\* del_node after its edges are deleted: r is what the loop left
DelNodeProps(r, node) ==
    LET ent == <<"n", node>>
        s1 == DeindexProps(r.store, ent)
        s2 == [s1 EXCEPT !.props[ent] = NoKw]
        s3 == [s2 EXCEPT !.nodes = @ \ {node}]
    IN  IF r.raised THEN r
        ELSE [store |-> s3, raised |-> FALSE, ret |-> NONE]

\* del_node returning without an error when the node is not there
DelNodeSilent(s, node) ==
    IF node \notin s.nodes
    THEN [store |-> s, raised |-> FALSE, ret |-> NONE]
    ELSE DelNodeProps(DelEdges(s, s.ie[node] \cup s.oe[node]), node)

DelNode(s, node) ==
    IF node \notin s.nodes
    THEN [store |-> s, raised |-> TRUE, ret |-> NONE]
    ELSE DelNodeProps(DelEdges(s, s.ie[node] \cup s.oe[node]), node)

\* ------------------------------------------------------------ the state
\* Graph.__init__ on an empty key space: both counters 0, nothing else exists
InitStore ==
    [next_nid |-> 0, next_eid |-> 0, nodes |-> {}, edges |-> {},
     props |-> [ent \in Ents |-> NoKw],
     ein |-> [e \in EdgeArgs |-> NONE],
     eon |-> [e \in EdgeArgs |-> NONE],
     oe |-> [n \in NodeKeys |-> {}],
     ie |-> [n \in NodeKeys |-> {}],
     cn |-> [n \in NodeKeys |-> EmptyZ],
     pn |-> [n \in NodeKeys |-> EmptyZ],
     fwd |-> [x \in Kinds \X Fields |-> {}],
     comp |-> [x \in Kinds \X Fields \X Values |-> {}]]

\* the weight of member in a sorted set: {} when it has no entry, else {weight}
ZScore(z, member) == {z[x] : x \in DOMAIN z \cap {member}}

\* what Node(parent).children(), Node(child).parents(), out_edges() and
\* in_edges() show of the pair (parent, child)
Adjacency(s, parent, child) ==
    [p |-> parent, c |-> child,
     cn |-> ZScore(s.cn[parent], child), pn |-> ZScore(s.pn[child], parent),
     oe |-> s.oe[parent], ie |-> s.ie[child]]

NoAdjacency == [p |-> NONE, c |-> NONE, cn |-> {}, pn |-> {}, oe |-> {}, ie |-> {}]

\* the last call: its name and arguments (kwargs: the keyword arguments of
\* add_node and add_edge, the criteria of a query); Returned adds its outcome
\* (ret an id, rval a property value, rset the ids a query found).  before
\* is what Adjacency showed when a successful add_edge began; del_edge of the
\* edge that the call just before it returned (undo) carries it on.
Call(name, kind, id, parent, child, f, v) ==
    [name |-> name, kind |-> kind, id |-> id, parent |-> parent, child |-> child,
     f |-> f, v |-> v, kwargs |-> NoKw,
     raised |-> FALSE, ret |-> NONE, rval |-> NIL, rset |-> {},
     before |-> NoAdjacency, undo |-> FALSE]

NoCall == Call("none", "n", NONE, NONE, NONE, NIL, NIL)

\* a caller between two store commands of a call: where it is (pc) and its
\* locals; node and todo are del_node's node and the edges it has yet to delete
Frame(pc, call, kind, parent, child, kwargs) ==
    [pc |-> pc, call |-> call, kind |-> kind, id |-> NONE,
     parent |-> parent, child |-> child, kwargs |-> kwargs,
     keys |-> KwKeys(kwargs), key |-> NIL, old |-> NIL,
     node |-> NONE, todo |-> {}]

Idle == Frame("idle", "none", "n", NONE, NONE, NoKw)

Init ==
    /\ store = InitStore
    /\ op = NoCall
    /\ issued = [k \in Kinds |-> <<>>]
    /\ nprop = 0
    /\ proc = [p \in Procs |-> Idle]

\* no sorted set holds a weight below -MaxGhostDel (del_edge of an edge whose
\* add_edge failed decrements <name>:n:None:cn without end)
WeightsBounded(s) ==
    \A n \in NodeKeys :
        /\ \A m \in DOMAIN s.cn[n] : s.cn[n][m] >= -MaxGhostDel
        /\ \A m \in DOMAIN s.pn[n] : s.pn[n][m] >= -MaxGhostDel

\* at most MaxPropOps calls write or remove a property
PropBudget(kwargs) ==
    /\ kwargs # NoKw => nprop < MaxPropOps
    /\ nprop' = IF kwargs # NoKw THEN nprop + 1 ELSE nprop

\* the call ends as r says: the store it leaves, whether it raised, what it
\* returned.  R: the outcomes (raised or not) of the calls the caller makes
Returned(r, R, call) ==
    /\ r.raised \in R
    /\ WeightsBounded(r.store)
    /\ store' = r.store
    /\ op' = IF call.name = "getattr"
             THEN [call EXCEPT !.raised = r.raised, !.rval = r.ret]
             ELSE IF call.name \in {"get_nodes", "get_edges", "find_nodes", "find_edges"}
             THEN [call EXCEPT !.raised = r.raised, !.rset = r.ret]
             ELSE [call EXCEPT !.raised = r.raised, !.ret = r.ret]
    /\ issued' = IF call.name \in {"add_node", "add_edge"} /\ ~r.raised
                 THEN [issued EXCEPT ![call.kind] = Append(@, r.ret)]
                 ELSE issued
    /\ UNCHANGED proc

\* KW: the keyword arguments the caller may pass
add_node(KW) ==
    /\ store.next_nid < MaxNodes
    /\ \E kwargs \in KW :
        /\ PropBudget(kwargs)
        /\ Returned(AddNode(store, kwargs), {FALSE},
                    [Call("add_node", "n", store.next_nid, NONE, NONE, NIL, NIL)
                     EXCEPT !.kwargs = kwargs])

add_edge(KW, R) ==
    /\ store.next_eid < MaxEdges
    /\ \E parent \in NodeArgs, child \in NodeArgs, kwargs \in KW :
        /\ PropBudget(kwargs)
        /\ Returned(AddEdge(store, parent, child, kwargs), R,
                    [Call("add_edge", "e", store.next_eid, parent, child, NIL, NIL)
                     EXCEPT !.kwargs = kwargs,
                            !.before =
                        IF parent \in store.nodes /\ child \in store.nodes
                        THEN Adjacency(store, parent, child) ELSE NoAdjacency])

del_node(R) ==
    \E node \in NodeArgs :
        /\ Returned(DelNode(store, node), R,
                    Call("del_node", "n", node, NONE, NONE, NIL, NIL))
        /\ UNCHANGED nprop

del_edge(R) ==
    \E edge \in EdgeArgs :
        /\ Returned(DelEdge(store, edge), R,
                    [Call("del_edge", "e", edge, NONE, NONE, NIL, NIL)
                     EXCEPT !.undo = op.name = "add_edge" /\ ~op.raised /\ op.ret = edge,
                            !.before = IF op.name = "add_edge" /\ ~op.raised /\ op.ret = edge
                                       THEN op.before ELSE NoAdjacency])
        /\ UNCHANGED nprop

\* n.prop.<f> = v through a Node or Edge handle
prop_setattr ==
    /\ nprop < MaxPropOps
    /\ \E ent \in Ents, f \in Fields, v \in Values :
        /\ Returned([store |-> SetAttr(store, ent, f, v), raised |-> FALSE, ret |-> NONE],
                    {FALSE}, Call("setattr", ent[1], ent[2], NONE, NONE, f, v))
        /\ nprop' = nprop + 1

\* del n.prop.<f>; v records the value hget read
prop_delattr ==
    /\ nprop < MaxPropOps
    /\ \E ent \in Ents, f \in Fields :
        /\ Returned(DelAttr(store, ent, f), BOOLEAN,
                    Call("delattr", ent[1], ent[2], NONE, NONE, f, store.props[ent][f]))
        /\ nprop' = nprop + 1

\* n.prop.<f>
prop_getattr ==
    \E ent \in Ents, f \in Fields :
        /\ Returned(GetAttr(store, ent, f), BOOLEAN,
                    Call("getattr", ent[1], ent[2], NONE, NONE, f, NIL))
        /\ UNCHANGED nprop

\* a single caller, every call
Next ==
    \/ add_node(KwArgs)
    \/ add_edge(KwArgs, BOOLEAN)
    \/ del_node(BOOLEAN)
    \/ del_edge(BOOLEAN)
    \/ prop_setattr
    \/ prop_delattr
    \/ prop_getattr

Spec == Init /\ [][Next]_vars

\* a single caller that only adds and deletes nodes and edges, without properties
NextGraph ==
    \/ add_node({NoKw})
    \/ add_edge({NoKw}, BOOLEAN)
    \/ del_node(BOOLEAN)
    \/ del_edge(BOOLEAN)

SpecGraph == Init /\ [][NextGraph]_vars

\* the same caller, in the runs in which no call raises
NextGraphOk ==
    \/ add_node({NoKw})
    \/ add_edge({NoKw}, {FALSE})
    \/ del_node({FALSE})
    \/ del_edge({FALSE})

SpecGraphOk == Init /\ [][NextGraphOk]_vars

\* a single caller that adds and deletes nodes and works on their properties
\* through handles
NextProps ==
    \/ add_node({NoKw})
    \/ del_node(BOOLEAN)
    \/ prop_setattr
    \/ prop_delattr
    \/ prop_getattr

SpecProps == Init /\ [][NextProps]_vars

\* ---------------------------------------------------- concurrent callers
\* Several callers share the key space; each store command of a call is one
\* step, and the steps of different callers interleave.  issued records the
\* ids in the order the calls returned them.

Ent(fr) == <<fr.kind, fr.id>>

\* calls of a kind that have returned an id or are running
Started(kind) ==
    Len(issued[kind])
        + Cardinality({q \in Procs : proc[q].pc # "idle" /\ proc[q].kind = kind})

\* the head of "for k in kwargs": the next key, or the statement after the loop
KwNext(fr) ==
    IF fr.keys = {}
    THEN [fr EXCEPT !.pc = IF fr.call = "add_node" THEN "an_incr" ELSE "ae_chk_parent"]
    ELSE LET k == CHOOSE x \in fr.keys : TRUE
         IN  [fr EXCEPT !.pc = "sa_hget", !.key = k, !.keys = @ \ {k}]

Goto(p, pc) == proc' = [proc EXCEPT ![p].pc = pc]

call_add_node(p) ==
    /\ proc[p].pc = "idle"
    /\ Started("n") < MaxNodes
    /\ \E kwargs \in KwArgs :
        /\ PropBudget(kwargs)
        /\ proc' = [proc EXCEPT ![p] = Frame("an_get", "add_node", "n", NONE, NONE, kwargs)]
    /\ UNCHANGED <<store, op, issued>>

call_add_edge(p) ==
    /\ proc[p].pc = "idle"
    /\ Started("e") < MaxEdges
    /\ \E parent \in NodeArgs, child \in NodeArgs, kwargs \in KwArgs :
        /\ PropBudget(kwargs)
        /\ proc' = [proc EXCEPT ![p] = Frame("ae_get", "add_edge", "e", parent, child, kwargs)]
    /\ UNCHANGED <<store, op, issued>>

\* new_nid = self.redis.get(self.next_nid_key)
an_get(p) ==
    /\ proc[p].pc = "an_get"
    /\ proc' = [proc EXCEPT ![p].id = store.next_nid, ![p].pc = "an_sadd"]
    /\ UNCHANGED <<store, op, issued, nprop>>

\* self.redis.sadd(self.nodes_key, new_nid)
an_sadd(p) ==
    /\ proc[p].pc = "an_sadd"
    /\ store' = [store EXCEPT !.nodes = @ \cup {proc[p].id}]
    /\ proc' = [proc EXCEPT ![p] = KwNext(proc[p])]
    /\ UNCHANGED <<op, issued, nprop>>

\* __setattr__: if redis.hget(<name>:p, name):
sa_hget(p) ==
    /\ proc[p].pc = "sa_hget"
    /\ Goto(p, IF Truthy(store.props[Ent(proc[p])][proc[p].key])
               THEN "sa_hget_old" ELSE "sa_hset")
    /\ UNCHANGED <<store, op, issued, nprop>>

\* old_value = redis.hget(<name>:p, name)
sa_hget_old(p) ==
    /\ proc[p].pc = "sa_hget_old"
    /\ proc' = [proc EXCEPT ![p].old = store.props[Ent(proc[p])][proc[p].key],
                            ![p].pc = "sa_srem_fwd"]
    /\ UNCHANGED <<store, op, issued, nprop>>

\* _deindex: redis.srem(<name>:i:<type>:<key>, eid)
sa_srem_fwd(p) ==
    /\ proc[p].pc = "sa_srem_fwd"
    /\ store' = [store EXCEPT !.fwd[<<proc[p].kind, proc[p].key>>] = @ \ {proc[p].id}]
    /\ Goto(p, "sa_srem_comp")
    /\ UNCHANGED <<op, issued, nprop>>

\* _deindex: redis.srem(<name>:i:<type>:<key>:<value>, eid); a None read by
\* sa_hget_old names the key ...:None, which no index set uses
sa_srem_comp(p) ==
    /\ proc[p].pc = "sa_srem_comp"
    /\ store' = IF proc[p].old \in Values
                THEN [store EXCEPT !.comp[<<proc[p].kind, proc[p].key, proc[p].old>>] =
                                        @ \ {proc[p].id}]
                ELSE store
    /\ Goto(p, "sa_hset")
    /\ UNCHANGED <<op, issued, nprop>>

\* redis.hset(<name>:p, name, value)
sa_hset(p) ==
    /\ proc[p].pc = "sa_hset"
    /\ store' = [store EXCEPT !.props[Ent(proc[p])][proc[p].key] =
                                    proc[p].kwargs[proc[p].key]]
    /\ Goto(p, "sa_sadd_fwd")
    /\ UNCHANGED <<op, issued, nprop>>

\* _index: redis.sadd(<name>:i:<type>:<key>, eid)
sa_sadd_fwd(p) ==
    /\ proc[p].pc = "sa_sadd_fwd"
    /\ store' = [store EXCEPT !.fwd[<<proc[p].kind, proc[p].key>>] = @ \cup {proc[p].id}]
    /\ Goto(p, "sa_sadd_comp")
    /\ UNCHANGED <<op, issued, nprop>>

\* _index: redis.sadd(<name>:i:<type>:<key>:<value>, eid); add_node and
\* add_edge go on to their own _index call, n.prop.<f> = v returns
sa_sadd_comp(p) ==
    /\ proc[p].pc = "sa_sadd_comp"
    /\ store' = [store EXCEPT
                    !.comp[<<proc[p].kind, proc[p].key, proc[p].kwargs[proc[p].key]>>] =
                        @ \cup {proc[p].id}]
    /\ Goto(p, IF proc[p].call = "setattr" THEN "done" ELSE "ix_sadd_fwd")
    /\ UNCHANGED <<op, issued, nprop>>

\* self._index(new_node.name, k, kwargs[k]): the forward set
ix_sadd_fwd(p) ==
    /\ proc[p].pc = "ix_sadd_fwd"
    /\ store' = [store EXCEPT !.fwd[<<proc[p].kind, proc[p].key>>] = @ \cup {proc[p].id}]
    /\ Goto(p, "ix_sadd_comp")
    /\ UNCHANGED <<op, issued, nprop>>

\* self._index(new_node.name, k, kwargs[k]): the composite set
ix_sadd_comp(p) ==
    /\ proc[p].pc = "ix_sadd_comp"
    /\ store' = [store EXCEPT
                    !.comp[<<proc[p].kind, proc[p].key, proc[p].kwargs[proc[p].key]>>] =
                        @ \cup {proc[p].id}]
    /\ proc' = [proc EXCEPT ![p] = KwNext(proc[p])]
    /\ UNCHANGED <<op, issued, nprop>>

\* self.redis.incr(self.next_nid_key); return new_node
an_incr(p) ==
    /\ proc[p].pc = "an_incr"
    /\ store' = [store EXCEPT !.next_nid = @ + 1]
    /\ issued' = [issued EXCEPT !["n"] = Append(@, proc[p].id)]
    /\ proc' = [proc EXCEPT ![p] = Idle]
    /\ UNCHANGED <<op, nprop>>

\* new_eid = self.redis.get(self.next_eid_key)
ae_get(p) ==
    /\ proc[p].pc = "ae_get"
    /\ proc' = [proc EXCEPT ![p].id = store.next_eid, ![p].pc = "ae_sadd"]
    /\ UNCHANGED <<store, op, issued, nprop>>

\* self.redis.sadd(self.edges_key, new_eid)
ae_sadd(p) ==
    /\ proc[p].pc = "ae_sadd"
    /\ store' = [store EXCEPT !.edges = @ \cup {proc[p].id}]
    /\ proc' = [proc EXCEPT ![p] = KwNext(proc[p])]
    /\ UNCHANGED <<op, issued, nprop>>

\* if not sismember(nodes, parent): raise ValueError(parent)
ae_chk_parent(p) ==
    /\ proc[p].pc = "ae_chk_parent"
    /\ proc' = IF proc[p].parent \in store.nodes
               THEN [proc EXCEPT ![p].pc = "ae_chk_child"]
               ELSE [proc EXCEPT ![p] = Idle]
    /\ UNCHANGED <<store, op, issued, nprop>>

\* if not sismember(nodes, child): raise ValueError(child)
ae_chk_child(p) ==
    /\ proc[p].pc = "ae_chk_child"
    /\ proc' = IF proc[p].child \in store.nodes
               THEN [proc EXCEPT ![p].pc = "ae_set_in"]
               ELSE [proc EXCEPT ![p] = Idle]
    /\ UNCHANGED <<store, op, issued, nprop>>

ae_set_in(p) ==
    /\ proc[p].pc = "ae_set_in"
    /\ store' = [store EXCEPT !.ein[proc[p].id] = proc[p].parent]
    /\ Goto(p, "ae_set_on")
    /\ UNCHANGED <<op, issued, nprop>>

ae_set_on(p) ==
    /\ proc[p].pc = "ae_set_on"
    /\ store' = [store EXCEPT !.eon[proc[p].id] = proc[p].child]
    /\ Goto(p, "ae_sadd_oe")
    /\ UNCHANGED <<op, issued, nprop>>

ae_sadd_oe(p) ==
    /\ proc[p].pc = "ae_sadd_oe"
    /\ store' = [store EXCEPT !.oe[proc[p].parent] = @ \cup {proc[p].id}]
    /\ Goto(p, "ae_sadd_ie")
    /\ UNCHANGED <<op, issued, nprop>>

ae_sadd_ie(p) ==
    /\ proc[p].pc = "ae_sadd_ie"
    /\ store' = [store EXCEPT !.ie[proc[p].child] = @ \cup {proc[p].id}]
    /\ Goto(p, "ae_zincrby_cn")
    /\ UNCHANGED <<op, issued, nprop>>

ae_zincrby_cn(p) ==
    /\ proc[p].pc = "ae_zincrby_cn"
    /\ store' = [store EXCEPT !.cn[proc[p].parent] = Zincrby(@, proc[p].child, 1)]
    /\ Goto(p, "ae_zincrby_pn")
    /\ UNCHANGED <<op, issued, nprop>>

ae_zincrby_pn(p) ==
    /\ proc[p].pc = "ae_zincrby_pn"
    /\ store' = [store EXCEPT !.pn[proc[p].child] = Zincrby(@, proc[p].parent, 1)]
    /\ Goto(p, "ae_incr")
    /\ UNCHANGED <<op, issued, nprop>>

\* self.redis.incr(self.next_eid_key); return new_edge
ae_incr(p) ==
    /\ proc[p].pc = "ae_incr"
    /\ store' = [store EXCEPT !.next_eid = @ + 1]
    /\ issued' = [issued EXCEPT !["e"] = Append(@, proc[p].id)]
    /\ proc' = [proc EXCEPT ![p] = Idle]
    /\ UNCHANGED <<op, nprop>>

NextConc ==
    \E p \in Procs :
        \/ call_add_node(p)
        \/ call_add_edge(p)
        \/ an_get(p)
        \/ an_sadd(p)
        \/ sa_hget(p)
        \/ sa_hget_old(p)
        \/ sa_srem_fwd(p)
        \/ sa_srem_comp(p)
        \/ sa_hset(p)
        \/ sa_sadd_fwd(p)
        \/ sa_sadd_comp(p)
        \/ ix_sadd_fwd(p)
        \/ ix_sadd_comp(p)
        \/ an_incr(p)
        \/ ae_get(p)
        \/ ae_sadd(p)
        \/ ae_chk_parent(p)
        \/ ae_chk_child(p)
        \/ ae_set_in(p)
        \/ ae_set_on(p)
        \/ ae_sadd_oe(p)
        \/ ae_sadd_ie(p)
        \/ ae_zincrby_cn(p)
        \/ ae_zincrby_pn(p)
        \/ ae_incr(p)

SpecConc == Init /\ [][NextConc]_vars

\* ---------------------------------------------------------------- claims
Live(s, ent) == IF ent[1] = "n" THEN ent[2] \in s.nodes ELSE ent[2] \in s.edges

\* the live edges from parent to child
EdgesBetween(s, parent, child) ==
    {e \in s.edges : s.ein[e] = parent /\ s.eon[e] = child}

\* the live edges that start or end at node
Incident(s, node) == {e \in s.edges : s.ein[e] = node \/ s.eon[e] = node}

\* C1: the ids add_node returned, in the order it returned them, are strictly
\* increasing, and so are the ids add_edge returned; no id, deleted or not, is
\* returned twice.
C1_IdsIncrease ==
    \A k \in Kinds :
        \A i \in 1..Len(issued[k]), j \in 1..Len(issued[k]) :
            i < j => issued[k][i] < issued[k][j]

\* add_edge has just returned an id after the first edge it returned was deleted
C1_Witness ==
    /\ op.name = "add_edge" /\ ~op.raised
    /\ Len(issued["e"]) >= 2
    /\ issued["e"][1] \notin store.edges
    /\ Len(issued["n"]) >= 2

\* C2: when no call has raised, every edge of the edge set is in oe of its
\* parent and in ie of its child, and cn(parent)[child] and pn(child)[parent]
\* both equal the number of live edges from parent to child.
C2_EdgesConsistent ==
    \A e \in store.edges :
        LET p == store.ein[e]
            c == store.eon[e]
            n == Cardinality(EdgesBetween(store, p, c))
        IN  /\ e \in store.oe[p]
            /\ e \in store.ie[c]
            /\ ZScore(store.cn[p], c) = {n}
            /\ ZScore(store.pn[c], p) = {n}

\* two parallel edges between two different nodes are live
C2_Witness ==
    \E e1 \in store.edges, e2 \in store.edges :
        /\ e1 # e2
        /\ store.ein[e1] = store.ein[e2] /\ store.eon[e1] = store.eon[e2]
        /\ store.ein[e1] # store.eon[e1]

\* the index sets say of ent exactly what its property map says
IndexMatches(s, ent) ==
    \A f \in Fields :
        /\ ent[2] \in s.fwd[<<ent[1], f>>] <=> s.props[ent][f] # NIL
        /\ \A v \in Values :
            ent[2] \in s.comp[<<ent[1], f, v>>] <=> s.props[ent][f] = v

\* C3: after a property set or remove on a live node or edge, its id is in the
\* composite set of (f, v) exactly when its property map has f = v, and in the
\* forward set of f exactly when the map has f.
C3_IndexConsistent ==
    (op.name \in {"setattr", "delattr"} /\ Live(store, <<op.kind, op.id>>))
        => IndexMatches(store, <<op.kind, op.id>>)

\* C4: reading a field right after setting it to v returns v; reading it right
\* after removing it raises AttributeError.
C4_RoundTrip ==
    [][(/\ op'.name = "getattr"
        /\ op.name \in {"setattr", "delattr"} /\ ~op.raised
        /\ op'.kind = op.kind /\ op'.id = op.id /\ op'.f = op.f
        /\ Live(store, <<op.kind, op.id>>))
       => IF op.name = "setattr"
          THEN ~op'.raised /\ op'.rval = op.v
          ELSE op'.raised]_vars

\* C5: once del_node(n) completes n is not in the node set, no live edge has n
\* as parent or child, the edges that were incident to n are in neither the
\* edge set nor any ie/oe set of another node, n has no entry in cn or pn of
\* another node, and n is in no node index set.
C5_DelNodeClears ==
    [][(op'.name = "del_node" /\ ~op'.raised)
       => LET n == op'.id IN
          /\ n \notin store'.nodes
          /\ Incident(store', n) = {}
          /\ \A e \in Incident(store, n) :
                /\ e \notin store'.edges
                /\ \A m \in NodeArgs \ {n} : e \notin store'.ie[m] \cup store'.oe[m]
          /\ \A m \in NodeArgs \ {n} :
                n \notin DOMAIN store'.cn[m] \cup DOMAIN store'.pn[m]
          /\ \A f \in Fields :
                /\ n \notin store'.fwd[<<"n", f>>]
                /\ \A v \in Values : n \notin store'.comp[<<"n", f, v>>]]_vars

\* C6: add_edge with a parent or child that is not in the node set raises
\* ValueError and leaves the edge set, the edge property maps, the edge index
\* sets, the adjacency sets, the weighted maps and next_eid as they were.
C6_AddEdgeFailsClean ==
    [][(/\ op'.name = "add_edge"
        /\ (op'.parent \notin store.nodes \/ op'.child \notin store.nodes))
       => /\ op'.raised
          /\ store'.edges = store.edges
          /\ \A e \in EdgeIds : store'.props[<<"e", e>>] = store.props[<<"e", e>>]
          /\ \A f \in Fields :
                /\ store'.fwd[<<"e", f>>] = store.fwd[<<"e", f>>]
                /\ \A v \in Values :
                    store'.comp[<<"e", f, v>>] = store.comp[<<"e", f, v>>]
          /\ store'.oe = store.oe /\ store'.ie = store.ie
          /\ store'.cn = store.cn /\ store'.pn = store.pn
          /\ store'.next_eid = store.next_eid]_vars

\* C7: del_node of an id that is not in the node set and del_edge of an id that
\* is not in the edge set raise ValueError and change no key of the store.
C7_DelAbsentFails ==
    [][/\ (op'.name = "del_node" /\ op'.id \notin store.nodes)
            => (op'.raised /\ store' = store)
       /\ (op'.name = "del_edge" /\ op'.id \notin store.edges)
            => (op'.raised /\ store' = store)]_vars

\* del_node of an absent id has just raised in a graph that has nodes and edges
C7_Witness ==
    /\ op.name = "del_node" /\ op.raised
    /\ store.nodes # {} /\ store.edges # {}

\* C8: removing a field the property map lacks raises AttributeError and
\* changes nothing; removing a field it has deletes the map entry and takes
\* the id out of the forward set of the field and out of the composite set of
\* the field and its prior value.
C8_Remove ==
    [][op'.name = "delattr"
       => LET ent == <<op'.kind, op'.id>>
              f == op'.f
              prior == store.props[ent][f]
          IN  IF prior = NIL
              THEN op'.raised /\ store' = store
              ELSE /\ ~op'.raised
                   /\ store'.props[ent][f] = NIL
                   /\ ent[2] \notin store'.fwd[<<ent[1], f>>]
                   /\ ent[2] \notin store'.comp[<<ent[1], f, prior>>]]_vars

\* a field holding the empty string has just been removed from a live node
C8_Witness ==
    /\ op.name = "delattr" /\ ~op.raised /\ op.v = ""
    /\ Live(store, <<op.kind, op.id>>)

\* C9: after add_edge(p, c) and, right after it, del_edge of the edge it
\* returned, cn(p)[c], pn(c)[p], oe(p) and ie(c) are what they were before the
\* add_edge; a weight that had no entry has none again.
C9_WeightLaw ==
    (op.name = "del_edge" /\ op.undo /\ ~op.raised)
        => Adjacency(store, op.before.p, op.before.c) = op.before

\* the edge just added and deleted again was the only one from p to c
C9_Witness ==
    /\ op.name = "del_edge" /\ op.undo /\ ~op.raised
    /\ op.before.cn = {} /\ op.before.p # op.before.c
    /\ store.edges # {}

\* C10: whatever the interleaving of the store commands of concurrent add_node
\* calls, and of concurrent add_edge calls, no two calls return the same id.
C10_DistinctIds ==
    \A k \in Kinds :
        \A i \in 1..Len(issued[k]), j \in 1..Len(issued[k]) :
            i # j => issued[k][i] # issued[k][j]

\* the weight of member in a sorted set, 0 when it has no entry
Weight(z, member) == IF member \in DOMAIN z THEN z[member] ELSE 0

\* C11: in every state, the states between the store commands of a running
\* add_edge or del_edge included, cn(p)[c] equals the number of edge ids in
\* oe(p) whose stored child is c, for every node p and node c.
C11_NoPartialEdge ==
    \A p \in NodeKeys, c \in NodeKeys :
        Weight(store.cn[p], c) =
            Cardinality({e \in store.oe[p] : store.eon[e] = c})

\* ------------------------------------------- concurrent property writes
\* n.prop.<f> = v through a handle, store command by store command.  A caller
\* whose call has returned stays at "done" with the arguments of that call.
call_setattr(p) ==
    /\ proc[p].pc = "idle"
    /\ nprop < MaxPropOps
    /\ nprop' = nprop + 1
    /\ \E ent \in Ents, f \in Fields, v \in Values :
        proc' = [proc EXCEPT ![p] =
                    [Frame("sa_hget", "setattr", ent[1], NONE, NONE, [NoKw EXCEPT ![f] = v])
                     EXCEPT !.id = ent[2], !.key = f, !.keys = {}]]
    /\ UNCHANGED <<store, op, issued>>

NextConcSet ==
    \E p \in Procs :
        \/ call_add_node(p)
        \/ an_get(p)
        \/ an_sadd(p)
        \/ an_incr(p)
        \/ call_setattr(p)
        \/ sa_hget(p)
        \/ sa_hget_old(p)
        \/ sa_srem_fwd(p)
        \/ sa_srem_comp(p)
        \/ sa_hset(p)
        \/ sa_sadd_fwd(p)
        \/ sa_sadd_comp(p)
        \/ ix_sadd_fwd(p)
        \/ ix_sadd_comp(p)

SpecConcSet == Init /\ [][NextConcSet]_vars

\* C12: once two callers have both completed a set of the same field f of the
\* same live entity to two different values, the entity's id is in the
\* composite set of (f, v) exactly when the property map holds f = v.
C12_ConcurrentSet ==
    \A p \in Procs, q \in Procs :
        (/\ p # q
         /\ proc[p].pc = "done" /\ proc[p].call = "setattr"
         /\ proc[q].pc = "done" /\ proc[q].call = "setattr"
         /\ Ent(proc[p]) = Ent(proc[q]) /\ proc[p].key = proc[q].key
         /\ proc[p].kwargs # proc[q].kwargs
         /\ Live(store, Ent(proc[p])))
        => \A v \in Values :
              proc[p].id \in store.comp[<<proc[p].kind, proc[p].key, v>>]
                  <=> store.props[Ent(proc[p])][proc[p].key] = v

\* ---------------------------------------------------- concurrent deletes
\* del_edge and del_node, store command by store command.  A caller whose
\* call has returned stays at "done", one whose call raised at "raised".

\* the head of "for p in props.keys()": the next key, or the delete after the loop
DxNext(fr) ==
    IF fr.keys = {}
    THEN [fr EXCEPT !.pc = IF fr.kind = "e" THEN "de_delete" ELSE "dn_delete"]
    ELSE LET k == CHOOSE x \in fr.keys : TRUE
         IN  [fr EXCEPT !.pc = "dx_srem_fwd", !.key = k, !.keys = @ \ {k}]

\* the head of "for e in in_edges | out_edges" (a set, iterated in any order):
\* del_edge(e) for an edge not yet visited, or the statement after the loop
DnLoop(p, fr) ==
    IF fr.todo = {}
    THEN proc' = [proc EXCEPT ![p] =
                    [fr EXCEPT !.pc = "dx_hgetall", !.kind = "n", !.id = fr.node,
                               !.parent = NONE, !.child = NONE]]
    ELSE \E e \in fr.todo :
            proc' = [proc EXCEPT ![p] =
                        [fr EXCEPT !.pc = "de_chk", !.kind = "e", !.id = e,
                                   !.parent = NONE, !.child = NONE,
                                   !.todo = @ \ {e}]]

call_del_edge(p) ==
    /\ proc[p].pc = "idle"
    /\ \E edge \in EdgeArgs :
        proc' = [proc EXCEPT ![p] =
                    [Frame("de_chk", "del_edge", "e", NONE, NONE, NoKw)
                     EXCEPT !.id = edge]]
    /\ UNCHANGED <<store, op, issued, nprop>>

call_del_node(p) ==
    /\ proc[p].pc = "idle"
    /\ \E node \in NodeArgs :
        proc' = [proc EXCEPT ![p] =
                    [Frame("dn_chk", "del_node", "n", NONE, NONE, NoKw)
                     EXCEPT !.id = node, !.node = node]]
    /\ UNCHANGED <<store, op, issued, nprop>>

\* if not sismember(edges, edge): raise ValueError(edge); inside del_node the
\* exception ends del_node too
de_chk(p) ==
    /\ proc[p].pc = "de_chk"
    /\ Goto(p, IF proc[p].id \in store.edges THEN "de_get_in" ELSE "raised")
    /\ UNCHANGED <<store, op, issued, nprop>>

\* parent = redis.get(<name>:e:<edge>:in)
de_get_in(p) ==
    /\ proc[p].pc = "de_get_in"
    /\ proc' = [proc EXCEPT ![p].parent = store.ein[proc[p].id], ![p].pc = "de_get_on"]
    /\ UNCHANGED <<store, op, issued, nprop>>

\* child = redis.get(<name>:e:<edge>:on)
de_get_on(p) ==
    /\ proc[p].pc = "de_get_on"
    /\ proc' = [proc EXCEPT ![p].child = store.eon[proc[p].id], ![p].pc = "de_zincrby_cn"]
    /\ UNCHANGED <<store, op, issued, nprop>>

\* if redis.zincrby(<name>:n:<parent>:cn, child, -1) == 0:
de_zincrby_cn(p) ==
    /\ proc[p].pc = "de_zincrby_cn"
    /\ store' = [store EXCEPT !.cn[proc[p].parent] = Zincrby(@, proc[p].child, -1)]
    /\ Goto(p, IF Weight(store.cn[proc[p].parent], proc[p].child) - 1 = 0
               THEN "de_zrem_cn" ELSE "de_zincrby_pn")
    /\ UNCHANGED <<op, issued, nprop>>

\* redis.zrem(<name>:n:<parent>:cn, child)
de_zrem_cn(p) ==
    /\ proc[p].pc = "de_zrem_cn"
    /\ store' = [store EXCEPT !.cn[proc[p].parent] = Zrem(@, proc[p].child)]
    /\ Goto(p, "de_zincrby_pn")
    /\ UNCHANGED <<op, issued, nprop>>

\* if redis.zincrby(<name>:n:<child>:pn, parent, -1) == 0:
de_zincrby_pn(p) ==
    /\ proc[p].pc = "de_zincrby_pn"
    /\ store' = [store EXCEPT !.pn[proc[p].child] = Zincrby(@, proc[p].parent, -1)]
    /\ Goto(p, IF Weight(store.pn[proc[p].child], proc[p].parent) - 1 = 0
               THEN "de_zrem_pn" ELSE "de_srem_oe")
    /\ UNCHANGED <<op, issued, nprop>>

\* redis.zrem(<name>:n:<child>:pn, parent)
de_zrem_pn(p) ==
    /\ proc[p].pc = "de_zrem_pn"
    /\ store' = [store EXCEPT !.pn[proc[p].child] = Zrem(@, proc[p].parent)]
    /\ Goto(p, "de_srem_oe")
    /\ UNCHANGED <<op, issued, nprop>>

\* redis.srem(<name>:n:<parent>:oe, edge)
de_srem_oe(p) ==
    /\ proc[p].pc = "de_srem_oe"
    /\ store' = [store EXCEPT !.oe[proc[p].parent] = @ \ {proc[p].id}]
    /\ Goto(p, "de_srem_ie")
    /\ UNCHANGED <<op, issued, nprop>>

\* redis.srem(<name>:n:<child>:ie, edge)
de_srem_ie(p) ==
    /\ proc[p].pc = "de_srem_ie"
    /\ store' = [store EXCEPT !.ie[proc[p].child] = @ \ {proc[p].id}]
    /\ Goto(p, "dx_hgetall")
    /\ UNCHANGED <<op, issued, nprop>>

\* props = obj.properties(): redis.hgetall(<name>:p)
dx_hgetall(p) ==
    /\ proc[p].pc = "dx_hgetall"
    /\ proc' = [proc EXCEPT ![p] =
                    DxNext([proc[p] EXCEPT !.kwargs = store.props[Ent(proc[p])],
                                           !.keys = PropKeys(store, Ent(proc[p]))])]
    /\ UNCHANGED <<store, op, issued, nprop>>

\* _deindex(name, p, props[p]): redis.srem(<name>:i:<type>:<key>, eid)
dx_srem_fwd(p) ==
    /\ proc[p].pc = "dx_srem_fwd"
    /\ store' = [store EXCEPT !.fwd[<<proc[p].kind, proc[p].key>>] = @ \ {proc[p].id}]
    /\ Goto(p, "dx_srem_comp")
    /\ UNCHANGED <<op, issued, nprop>>

\* _deindex(name, p, props[p]): redis.srem(<name>:i:<type>:<key>:<value>, eid)
dx_srem_comp(p) ==
    /\ proc[p].pc = "dx_srem_comp"
    /\ store' = [store EXCEPT
                    !.comp[<<proc[p].kind, proc[p].key, proc[p].kwargs[proc[p].key]>>] =
                        @ \ {proc[p].id}]
    /\ proc' = [proc EXCEPT ![p] = DxNext(proc[p])]
    /\ UNCHANGED <<op, issued, nprop>>

\* redis.delete(<name>:e:<edge>:in, <name>:e:<edge>:on, <name>:e:<edge>:p)
de_delete(p) ==
    /\ proc[p].pc = "de_delete"
    /\ store' = [store EXCEPT !.ein[proc[p].id] = NONE,
                              !.eon[proc[p].id] = NONE,
                              !.props[Ent(proc[p])] = NoKw]
    /\ Goto(p, "de_srem")
    /\ UNCHANGED <<op, issued, nprop>>

\* redis.srem(edges, edge); del_edge returns, to its caller or to del_node's loop
de_srem(p) ==
    /\ proc[p].pc = "de_srem"
    /\ store' = [store EXCEPT !.edges = @ \ {proc[p].id}]
    /\ IF proc[p].call = "del_edge" THEN Goto(p, "done") ELSE DnLoop(p, proc[p])
    /\ UNCHANGED <<op, issued, nprop>>

\* if not sismember(nodes, node): raise ValueError(node)
dn_chk(p) ==
    /\ proc[p].pc = "dn_chk"
    /\ Goto(p, IF proc[p].node \in store.nodes THEN "dn_smembers_ie" ELSE "raised")
    /\ UNCHANGED <<store, op, issued, nprop>>

\* in_edges = redis.smembers(<name>:n:<node>:ie)
dn_smembers_ie(p) ==
    /\ proc[p].pc = "dn_smembers_ie"
    /\ proc' = [proc EXCEPT ![p].todo = store.ie[proc[p].node],
                            ![p].pc = "dn_smembers_oe"]
    /\ UNCHANGED <<store, op, issued, nprop>>

\* out_edges = redis.smembers(<name>:n:<node>:oe); for e in in_edges | out_edges
dn_smembers_oe(p) ==
    /\ proc[p].pc = "dn_smembers_oe"
    /\ DnLoop(p, [proc[p] EXCEPT !.todo = @ \cup store.oe[proc[p].node]])
    /\ UNCHANGED <<store, op, issued, nprop>>

\* redis.delete(<name>:n:<node>:p)
dn_delete(p) ==
    /\ proc[p].pc = "dn_delete"
    /\ store' = [store EXCEPT !.props[<<"n", proc[p].node>>] = NoKw]
    /\ Goto(p, "dn_srem")
    /\ UNCHANGED <<op, issued, nprop>>

\* redis.srem(nodes, node)
dn_srem(p) ==
    /\ proc[p].pc = "dn_srem"
    /\ store' = [store EXCEPT !.nodes = @ \ {proc[p].node}]
    /\ Goto(p, "done")
    /\ UNCHANGED <<op, issued, nprop>>

\* add_edge(parent, child) without keyword arguments
call_add_edge_plain(p) ==
    /\ call_add_edge(p)
    /\ proc'[p].kwargs = NoKw

\* the store commands of del_edge, called directly or from del_node's loop
DelEdgeSteps(p) ==
    \/ de_chk(p)
    \/ de_get_in(p)
    \/ de_get_on(p)
    \/ de_zincrby_cn(p)
    \/ de_zrem_cn(p)
    \/ de_zincrby_pn(p)
    \/ de_zrem_pn(p)
    \/ de_srem_oe(p)
    \/ de_srem_ie(p)
    \/ dx_hgetall(p)
    \/ dx_srem_fwd(p)
    \/ dx_srem_comp(p)
    \/ de_delete(p)
    \/ de_srem(p)

\* Caller 1 makes one del_node and caller 2 add_edge calls, store command by
\* store command; the nodes are added by calls that nothing interleaves.
NextConcDelNode ==
    \/ add_node(KwArgs)
    \/ call_del_node(1)
    \/ dn_chk(1)
    \/ dn_smembers_ie(1)
    \/ dn_smembers_oe(1)
    \/ DelEdgeSteps(1)
    \/ dn_delete(1)
    \/ dn_srem(1)
    \/ call_add_edge_plain(2)
    \/ ae_get(2)
    \/ ae_sadd(2)
    \/ ae_chk_parent(2)
    \/ ae_chk_child(2)
    \/ ae_set_in(2)
    \/ ae_set_on(2)
    \/ ae_sadd_oe(2)
    \/ ae_sadd_ie(2)
    \/ ae_zincrby_cn(2)
    \/ ae_zincrby_pn(2)
    \/ ae_incr(2)

SpecConcDelNode == Init /\ [][NextConcDelNode]_vars

\* a caller is between two store commands of a call
Running(p) == proc[p].pc \notin {"new", "idle", "done", "raised"}

\* C13: once a del_node(n) that ran concurrently with add_edge calls of another
\* caller has returned and no call is running, no edge of the edge set has n
\* as its stored parent or child, n has no entry in cn or pn of a surviving
\* node, and no edge id in ie or oe of a surviving node belongs to an edge of n.
C13_DelNodeVsAddEdge ==
    \A p \in Procs :
        (/\ proc[p].pc = "done" /\ proc[p].call = "del_node"
         /\ \A q \in Procs : ~Running(q))
        => LET n == proc[p].node IN
           /\ \A e \in store.edges : store.ein[e] # n /\ store.eon[e] # n
           /\ \A m \in store.nodes :
                /\ n \notin DOMAIN store.cn[m] \cup DOMAIN store.pn[m]
                /\ \A e \in store.ie[m] \cup store.oe[m] :
                        store.ein[e] # n /\ store.eon[e] # n

\* no caller has begun a call
Quiet == \A p \in Procs : proc[p].pc = "idle"

\* add_node() and a successful add_edge before any other call begins
first_add_node == Quiet /\ add_node({NoKw})

first_add_edge == Quiet /\ add_edge(KwArgs, {FALSE})

\* Two callers make one del_edge each, store command by store command; the
\* nodes and edges are added before the first del_edge begins.
NextConcDelEdge ==
    \/ first_add_node
    \/ first_add_edge
    \/ \E p \in Procs :
        \/ call_del_edge(p)
        \/ DelEdgeSteps(p)

SpecConcDelEdge == Init /\ [][NextConcDelEdge]_vars

\* C15: once two callers have both finished del_edge of the same live edge,
\* every weight cn(p)[c] and pn(c)[p] equals the number of live edges from p
\* to c, and no cn or pn map holds an entry with weight 0 or less.
C15_DelEdgeOnce ==
    \A p \in Procs, q \in Procs :
        (/\ p # q
         /\ proc[p].call = "del_edge" /\ proc[p].pc = "done"
         /\ proc[q].call = "del_edge" /\ proc[q].pc \in {"done", "raised"}
         /\ proc[p].id = proc[q].id)
        => /\ \A n \in NodeArgs, m \in NodeArgs :
                /\ Weight(store.cn[n], m) = Cardinality(EdgesBetween(store, n, m))
                /\ Weight(store.pn[m], n) = Cardinality(EdgesBetween(store, n, m))
           /\ \A n \in NodeKeys :
                /\ \A m \in DOMAIN store.cn[n] : store.cn[n][m] > 0
                /\ \A m \in DOMAIN store.pn[n] : store.pn[n][m] > 0

\* C14: in every state, the states between the store commands of a running or
\* failed add_node or add_edge included, every id of the node set is below
\* next_nid and every id of the edge set is below next_eid.
C14_AllocateThenRegister ==
    /\ \A n \in store.nodes : n < store.next_nid
    /\ \A e \in store.edges : e < store.next_eid

\* ------------------------------------------------------ Graph.__init__
\* The key space before any Graph(name) was constructed: no counter exists
\* (NONE: get answers None).  Every caller constructs its Graph, store
\* command by store command, before it calls add_node or add_edge, and may
\* construct one again later.
NewCaller == [Idle EXCEPT !.pc = "new"]

InitFresh ==
    /\ store = [InitStore EXCEPT !.next_nid = NONE, !.next_eid = NONE]
    /\ op = NoCall
    /\ issued = [k \in Kinds |-> <<>>]
    /\ nprop = 0
    /\ proc = [p \in Procs |-> NewCaller]

\* Graph(name); key records whether both counters existed when it began
call_graph(p) ==
    /\ proc[p].pc \in {"new", "idle"}
    /\ proc' = [proc EXCEPT ![p] =
                    [Frame("gi_exists_nid", "Graph", "n", NONE, NONE, NoKw)
                     EXCEPT !.key = IF store.next_nid # NONE /\ store.next_eid # NONE
                                    THEN "exist" ELSE "first"]]
    /\ UNCHANGED <<store, op, issued, nprop>>

\* if not self.redis.exists(self.next_nid_key):
gi_exists_nid(p) ==
    /\ proc[p].pc = "gi_exists_nid"
    /\ Goto(p, IF store.next_nid = NONE THEN "gi_set_nid" ELSE "gi_exists_eid")
    /\ UNCHANGED <<store, op, issued, nprop>>

\* self.redis.set(self.next_nid_key, 0)
gi_set_nid(p) ==
    /\ proc[p].pc = "gi_set_nid"
    /\ store' = [store EXCEPT !.next_nid = 0]
    /\ Goto(p, "gi_exists_eid")
    /\ UNCHANGED <<op, issued, nprop>>

\* if not self.redis.exists(self.next_eid_key):
gi_exists_eid(p) ==
    /\ proc[p].pc = "gi_exists_eid"
    /\ proc' = IF store.next_eid = NONE
               THEN [proc EXCEPT ![p].pc = "gi_set_eid"]
               ELSE [proc EXCEPT ![p] = Idle]
    /\ UNCHANGED <<store, op, issued, nprop>>

\* self.redis.set(self.next_eid_key, 0)
gi_set_eid(p) ==
    /\ proc[p].pc = "gi_set_eid"
    /\ store' = [store EXCEPT !.next_eid = 0]
    /\ proc' = [proc EXCEPT ![p] = Idle]
    /\ UNCHANGED <<op, issued, nprop>>

NextInit ==
    \E p \in Procs :
        \/ call_graph(p)
        \/ gi_exists_nid(p)
        \/ gi_set_nid(p)
        \/ gi_exists_eid(p)
        \/ gi_set_eid(p)
        \/ call_add_node(p)
        \/ an_get(p)
        \/ an_sadd(p)
        \/ sa_hget(p)
        \/ sa_hget_old(p)
        \/ sa_srem_fwd(p)
        \/ sa_srem_comp(p)
        \/ sa_hset(p)
        \/ sa_sadd_fwd(p)
        \/ sa_sadd_comp(p)
        \/ ix_sadd_fwd(p)
        \/ ix_sadd_comp(p)
        \/ an_incr(p)
        \/ call_add_edge_plain(p)
        \/ ae_get(p)
        \/ ae_sadd(p)
        \/ ae_chk_parent(p)
        \/ ae_chk_child(p)
        \/ ae_set_in(p)
        \/ ae_set_on(p)
        \/ ae_sadd_oe(p)
        \/ ae_sadd_ie(p)
        \/ ae_zincrby_cn(p)
        \/ ae_zincrby_pn(p)
        \/ ae_incr(p)

SpecInit == InitFresh /\ [][NextInit]_vars

\* C16: next_nid and next_eid never decrease, whatever the interleaving of a
\* Graph(name) construction with the add_node and add_edge calls of another
\* caller, and a construction that began when both counters existed changes
\* no key of the store.
C16_CountersInitOnce ==
    [][/\ store'.next_nid >= store.next_nid
       /\ store'.next_eid >= store.next_eid
       /\ \A p \in Procs :
            (/\ proc[p].call = "Graph" /\ proc[p].key = "exist"
             /\ proc'[p] # proc[p])
            => store' = store]_vars

\* ---------------------------------------------------------------- queries
\* the regular expressions a caller searches with, and re.search on the
\* values: '' is found in every string, 'a' in a string that contains a,
\* '^$' in the empty string only
Patterns == {"", "a", "^$"}

Search(pattern, value) ==
    CASE pattern = "" -> TRUE
      [] pattern = "a" -> value = "a"
      [] pattern = "^$" -> value = ""

Criteria == [Fields -> Patterns \cup {NIL}]

\* sinter answering the empty set for an empty list of keys
SinterLenient(sets) ==
    [raised |-> FALSE, ret |-> {x \in UNION sets : \A m \in sets : x \in m}]

\* redis.sinter(keys): an empty list of keys is a command with too few
\* arguments, which the server refuses (ResponseError)
Sinter(sets) ==
    IF sets = {}
    THEN [raised |-> TRUE, ret |-> {}]
    ELSE [raised |-> FALSE, ret |-> {x \in UNION sets : \A m \in sets : x \in m}]

\* get_nodes / get_edges: the composite sets of the (k, kwargs[k]) given
GetEnts(s, kind, kwargs) ==
    [store |-> s,
     raised |-> Sinter({s.comp[<<kind, k, kwargs[k]>>] : k \in KwKeys(kwargs)}).raised,
     ret |-> Sinter({s.comp[<<kind, k, kwargs[k]>>] : k \in KwKeys(kwargs)}).ret]

\* the inner loop of find_nodes / find_edges for one field k
Found(s, kind, k, pattern) ==
    {n \in s.fwd[<<kind, k>>] : Search(pattern, s.props[<<kind, n>>][k])}

\* find_nodes / find_edges answering every entity that has some field when
\* given criteria, whatever the patterns
FindEntsAny(s, kind, kwargs) ==
    [store |-> s, raised |-> KwKeys(kwargs) = {},
     ret |-> UNION {s.fwd[<<kind, k>>] : k \in KwKeys(kwargs)}]

\* find_nodes / find_edges: re.search(None) (an id of the forward set whose
\* map lacks the field) raises TypeError, and so does set.intersection()
\* without an argument
FindEnts(s, kind, kwargs) ==
    IF \/ KwKeys(kwargs) = {}
       \/ \E k \in KwKeys(kwargs) :
            \E n \in s.fwd[<<kind, k>>] : s.props[<<kind, n>>][k] = NIL
    THEN [store |-> s, raised |-> TRUE, ret |-> {}]
    ELSE [store |-> s, raised |-> FALSE,
          ret |-> Sinter({Found(s, kind, k, kwargs[k]) : k \in KwKeys(kwargs)}).ret]

\* a query, as the last call
Query(name, kind, kwargs) ==
    [Call(name, kind, NONE, NONE, NONE, NIL, NIL) EXCEPT !.kwargs = kwargs]

get_nodes ==
    \E kwargs \in KwArgs :
        /\ Returned(GetEnts(store, "n", kwargs), BOOLEAN, Query("get_nodes", "n", kwargs))
        /\ UNCHANGED nprop

get_edges ==
    \E kwargs \in KwArgs :
        /\ Returned(GetEnts(store, "e", kwargs), BOOLEAN, Query("get_edges", "e", kwargs))
        /\ UNCHANGED nprop

find_nodes ==
    \E kwargs \in Criteria :
        /\ Returned(FindEnts(store, "n", kwargs), BOOLEAN, Query("find_nodes", "n", kwargs))
        /\ UNCHANGED nprop

find_edges ==
    \E kwargs \in Criteria :
        /\ Returned(FindEnts(store, "e", kwargs), BOOLEAN, Query("find_edges", "e", kwargs))
        /\ UNCHANGED nprop

\* n.prop.<f> = v and del n.prop.<f> through the handle of a live entity
live_setattr == prop_setattr /\ Live(store, <<op'.kind, op'.id>>)

live_delattr == prop_delattr /\ Live(store, <<op'.kind, op'.id>>)

\* a single caller that adds, deletes, works on the properties of live
\* entities and queries
NextQuery ==
    \/ add_node(KwArgs)
    \/ add_edge(KwArgs, BOOLEAN)
    \/ del_node(BOOLEAN)
    \/ del_edge(BOOLEAN)
    \/ live_setattr
    \/ live_delattr
    \/ get_nodes
    \/ get_edges
    \/ find_nodes
    \/ find_edges

SpecQuery == Init /\ [][NextQuery]_vars

\* the entities of a kind that are in the membership set
Members(s, kind) == IF kind = "n" THEN s.nodes ELSE s.edges

C18_NoCriteriaRaises ==
    [][(/\ op'.name \in {"get_nodes", "get_edges", "find_nodes", "find_edges"}
        /\ op'.kwargs = NoKw)
       => (op'.raised /\ store' = store)]_vars

\* get_edges() has just raised in a graph that has an edge with a property
C18_Witness ==
    /\ op.name = "get_edges" /\ op.kwargs = NoKw /\ op.raised
    /\ \E e \in store.edges : store.props[<<"e", e>>] # NoKw

\* C19: every id of a node forward or composite index set is in the node set
\* and every id of an edge index set is in the edge set, whatever the caller
\* did, property set and remove through handles of deleted or never
\* allocated ids included.
C19_IndexOnlyLive ==
    \A k \in Kinds, f \in Fields :
        /\ store.fwd[<<k, f>>] \subseteq Members(store, k)
        /\ \A v \in Values : store.comp[<<k, f, v>>] \subseteq Members(store, k)

\* a single caller that adds and deletes nodes and edges, with properties
\* given to add_node and add_edge only
NextGraphKw ==
    \/ add_node(KwArgs)
    \/ add_edge(KwArgs, BOOLEAN)
    \/ del_node(BOOLEAN)
    \/ del_edge(BOOLEAN)

SpecGraphKw == Init /\ [][NextGraphKw]_vars

\* C20: the entity a successful add_node(props) or add_edge(parent, child,
\* props) returns has exactly props as its property map, and get_nodes /
\* get_edges return it only for a (field, value) among props.
C20_FreshProps ==
    (op.name \in {"add_node", "add_edge"} /\ ~op.raised)
        => /\ store.props[<<op.kind, op.ret>>] = op.kwargs
           /\ \A f \in Fields, v \in Values :
                op.ret \in GetEnts(store, op.kind, [NoKw EXCEPT ![f] = v]).ret
                    => op.kwargs[f] = v

====
